---- MODULE Spec2Model ----
(***************************************************************************)
(* Sliding-tile puzzle solvers: IDA* (src/IDAstar.py and its variant       *)
(* src/100455111/IDAstar.py) and IDDFS (src/IDDFS.py).                     *)
(*                                                                         *)
(* Grids are tuples of rows, as in the source (tuple of tuple).  Row and   *)
(* column numbers are the source's 0-based numbers; At(m, r, c) reads the  *)
(* cell m[r][c] of the source.                                             *)
(***************************************************************************)
EXTENDS Integers, Sequences, FiniteSets

VARIABLES
    algo,          \* which program runs: "ida" (IDAstar.py) or "iddfs" (IDDFS.py)
    variant,       \* 1: src/IDAstar.py, 2: src/100455111/IDAstar.py, 0: IDDFS
    max_depth,     \* the module global max_depth
    start_state,   \* the start state handed to solve_puzzle: [kind, x, y, m]
    pc,            \* position in the running solver
    path,          \* ida_star: the list path
    frames,        \* the call stack of search / dls, innermost last
    bound,         \* ida_star: bound
    depth,         \* iddfs: the loop variable depth
    visited,       \* iddfs: the set visited of the current depth
    arg,           \* the argument of the invocation being entered: g of search, node of dls
    nodes_opened,  \* the nodes-opened counter
    ret,           \* the value the last finished invocation returned
    result,        \* what ida_star / iddfs returned; None while it runs
    hist           \* history of the run of ida_star, kept for stating properties:
                   \* iter, the number of the outer iteration; calls, the
                   \* invocations of search so far; cut_min, the least f among
                   \* the nodes cut off in this outer iteration

vars == <<algo, variant, max_depth, start_state, pc, path, frames, bound,
          depth, visited, arg, nodes_opened, ret, result, hist>>

(***************************************************************************)
(* Bounds of the model.                                                    *)
(***************************************************************************)
\* start states lie within MaxStartDist slides of the goal, or of the
\* goal with two tiles exchanged (the wrong-parity starts)
MaxStartDist == 5
\* max_depth is drawn from 0..MaxMaxDepth
MaxMaxDepth == 3
\* ida_star is also started DeepDist slides from the goal, on the states
\* whose Manhattan distance is below their true distance, with max_depth
\* DeepDist - 1 or DeepDist
DeepDist == 8

\* a value that may be None is a sequence of at most one element:
\* None is the empty one, Some(v) holds v
None == <<>>

Some(v) == <<v>>

The(opt) == opt[1]
\* float('inf')
Inf == 1000000

(***************************************************************************)
(* The puzzle state model.                                                 *)
(***************************************************************************)
\* goal_state of main(): blank position and grid
goal_state == [kind |-> "tuple", x |-> 1, y |-> 1,
               m |-> << <<1, 2, 3>>, <<8, 0, 4>>, <<7, 6, 5>> >>]

\* Puzzle.__init__: self.goal
goal == goal_state.m

\* Puzzle.__init__: self.initial
initial == start_state.m

\* Puzzle.__init__: self.size
size == Len(initial)

At(m, r, c) == m[r + 1][c + 1]

Cells(m) == (0 .. Len(m) - 1) \X (0 .. Len(m) - 1)

Abs(n) == IF n < 0 THEN -n ELSE n

\* Puzzle.__init__: self.goal_positions, a dict from value to (r, c)
goal_positions == [val \in {At(goal, rc[1], rc[2]) : rc \in Cells(goal)} |->
                     CHOOSE rc \in Cells(goal) : At(goal, rc[1], rc[2]) = val]

RECURSIVE SumOver(_, _)
SumOver(S, f) ==
    IF S = {} THEN 0
    ELSE LET e == CHOOSE e \in S : TRUE IN f[e] + SumOver(S \ {e}, f)

\* h_manhattan without its test  if val:  so that the blank counts as a tile
h_manhattan_CountsBlank(state) ==
    SumOver(Cells(state),
            [rc \in Cells(state) |->
               LET val == At(state, rc[1], rc[2]) IN
               Abs(rc[1] - goal_positions[val][1])
               + Abs(rc[2] - goal_positions[val][2])])

\* Puzzle.h_manhattan
h_manhattan(state) ==
    SumOver(Cells(state),
            [rc \in Cells(state) |->
               LET val == At(state, rc[1], rc[2]) IN
               IF val # 0
               THEN Abs(rc[1] - goal_positions[val][1])
                    + Abs(rc[2] - goal_positions[val][2])
               ELSE 0])

\* the (r, c) of the cells holding 0
ZeroCells(state) == {rc \in Cells(state) : At(state, rc[1], rc[2]) = 0}

\* Puzzle.find_zero_position: the first row holding 0, and row.index(0)
find_zero_position(state) ==
    CHOOSE rc \in ZeroCells(state) :
       \A o \in ZeroCells(state) :
          rc[1] < o[1] \/ (rc[1] = o[1] /\ rc[2] <= o[2])

Range(seq) == {seq[i] : i \in 1 .. Len(seq)}

\* the move list with (1, 1) written for (0, 1)
moves_Diagonal == << <<-1, 0>>, <<1, 0>>, <<0, -1>>, <<1, 1>> >>

\* generate_successors: the (dr, dc) list of its for loop
moves == << <<-1, 0>>, <<1, 0>>, <<0, -1>>, <<0, 1>> >>

\* the tuple swap  m[r][c], m[nr][nc] = m[nr][nc], m[r][c]
SwapCells(m, r, c, nr, nc) ==
    [m EXCEPT ![r + 1][c + 1] = At(m, nr, nc),
              ![nr + 1][nc + 1] = At(m, r, c)]

RECURSIVE MapFilter(_, _, _)
\* the list built by appending f[e] for each e of seq with ok[e], in order
MapFilter(seq, ok, f) ==
    IF seq = <<>> THEN <<>>
    ELSE (IF ok[Head(seq)] THEN <<f[Head(seq)]>> ELSE <<>>)
         \o MapFilter(Tail(seq), ok, f)

\* Puzzle.generate_successors
generate_successors(state) ==
    LET z == find_zero_position(state) IN
    MapFilter(moves,
              [d \in Range(moves) |->
                 /\ 0 <= z[1] + d[1] /\ z[1] + d[1] < size
                 /\ 0 <= z[2] + d[2] /\ z[2] + d[2] < size],
              [d \in Range(moves) |->
                 SwapCells(state, z[1], z[2], z[1] + d[1], z[2] + d[2])])

(***************************************************************************)
(* The true distance to the goal, by breadth-first search over the legal   *)
(* slides.  A legal slide exchanges the blank with one orthogonally        *)
(* adjacent cell of the grid.                                              *)
(***************************************************************************)
Adjacent(a, b) == Abs(a[1] - b[1]) + Abs(a[2] - b[2]) = 1

Slides(s) ==
    {SwapCells(s, zb[1][1], zb[1][2], zb[2][1], zb[2][2]) :
        zb \in {p \in ZeroCells(s) \X Cells(s) : Adjacent(p[1], p[2])}}

SlidesOf(S) == UNION {Slides(s) : s \in S}

RECURSIVE LevelsFrom(_, _)
\* <<L0, L1, ..., Lk>>: Li holds the states exactly i slides from base
LevelsFrom(base, k) ==
    IF k = 0 THEN << {base} >>
    ELSE LET prev == LevelsFrom(base, k - 1)
             seen == UNION {prev[i] : i \in 1 .. Len(prev)}
         IN Append(prev, SlidesOf(prev[Len(prev)]) \ seen)

\* the distances are computed up to this radius
Radius == DeepDist + 2

GoalLevels == LevelsFrom(goal, Radius)

GoalBall == UNION {GoalLevels[i] : i \in 1 .. Len(GoalLevels)}

\* the goal with tiles 1 and 2 exchanged: the goal is unreachable from it
WrongParityBase == << <<2, 1, 3>>, <<8, 0, 4>>, <<7, 6, 5>> >>

WrongLevels == LevelsFrom(WrongParityBase, Radius)

WrongBall == UNION {WrongLevels[i] : i \in 1 .. Len(WrongLevels)}

\* the least number of slides from s to the goal; Inf when unreachable
GoalDist == [s \in GoalBall |-> (CHOOSE i \in 1 .. Len(GoalLevels) : s \in GoalLevels[i]) - 1]

Dist(s) == IF s \in GoalBall THEN GoalDist[s] ELSE Inf

Reachable(s) == s \in GoalBall

(***************************************************************************)
(* Start states, as generate_start_states / generate_random_states build   *)
(* them: [*blank_pos, grid].                                               *)
(***************************************************************************)
StartGrids ==
    UNION {GoalLevels[i] : i \in 1 .. MaxStartDist + 1}
    \cup UNION {WrongLevels[i] : i \in 1 .. MaxStartDist + 1}

\* the states DeepDist slides from the goal that h_manhattan underestimates
DeepStarts == {s \in GoalLevels[DeepDist + 1] : h_manhattan(s) < DeepDist}

\* a start state of the given kind: "list" is [r, c, [[..],..]] as
\* generate_random_states builds it, "tuple" is (r, c, ((..),..)) as
\* PuzzleSolver.generate_start_states builds it
StartState(kind, grid) ==
    LET z == find_zero_position(grid) IN
    [kind |-> kind, x |-> z[1], y |-> z[2], m |-> grid]

\* nothing has run yet
Fresh ==
    /\ pc = "new"
    /\ path = <<>>
    /\ frames = <<>>
    /\ bound = 0
    /\ depth = 0
    /\ visited = {}
    /\ arg = None
    /\ nodes_opened = 0
    /\ ret = None
    /\ result = None
    /\ hist = [iter |-> 0, calls |-> 0, cut_min |-> Inf]

Init ==
    /\ algo \in {"ida", "iddfs"}
    /\ variant \in (IF algo = "ida" THEN {1, 2} ELSE {0})
    /\ \/ /\ max_depth \in 0 .. MaxMaxDepth
          /\ \E grid \in StartGrids :
                \E kind \in (IF algo = "ida" THEN {"list"} ELSE {"list", "tuple"}) :
                   start_state = StartState(kind, grid)
       \/ /\ algo = "ida"
          /\ max_depth \in {DeepDist - 1, DeepDist}
          /\ \E grid \in DeepStarts : start_state = StartState("list", grid)
    /\ Fresh


\* solve_puzzle builds Puzzle(start_state, goal_state), or Node(start_state):
\* both constructors store what they are given and check nothing
Construct ==
    /\ pc = "new"
    /\ pc' = "start"
    /\ UNCHANGED <<hist, algo, variant, max_depth, start_state, path, frames, bound,
                   depth, visited, arg, nodes_opened, ret, result>>

(***************************************************************************)
(* IDA*: Puzzle.ida_star and its nested search.                            *)
(***************************************************************************)
\* h_manhattan raises KeyError: self.goal_positions[val] has no such val
KeyErrorIn(state) ==
    \E rc \in Cells(state) :
       /\ At(state, rc[1], rc[2]) # 0
       /\ At(state, rc[1], rc[2]) \notin DOMAIN goal_positions

\* generate_successors raises StopIteration: next(...) finds no blank
StopIterationIn(state) == ZeroCells(state) = {}
Top(stack) == stack[Len(stack)]

Pop(stack) == SubSeq(stack, 1, Len(stack) - 1)

\* the cycle guard looking at the current state only
InList_LastOnly(s, list) == list[Len(list)] = s

InList(s, list) == \E i \in 1 .. Len(list) : list[i] = s

\* ida_star up to the first call of search
IdaStart ==
    /\ algo = "ida" /\ pc = "start"
    /\ ~KeyErrorIn(initial)
    /\ bound' = h_manhattan(initial)
    /\ path' = <<initial>>
    /\ arg' = 0
    /\ pc' = "call"
    /\ hist' = [hist EXCEPT !.iter = 1]
    /\ UNCHANGED <<algo, variant, max_depth, start_state, frames, depth,
                   visited, nodes_opened, ret, result>>

\* the cutoff test with  g >= max_depth  for  g > max_depth
Cutoff_DepthOffByOne(f, g) == f > bound \/ g >= max_depth

\* the cutoff test without its max_depth part
Cutoff_NoDepthTest(f, g) == f > bound

\* the cutoff test of search
Cutoff(f, g) == f > bound \/ g > max_depth

\* search gets to the head of its loop, where generate_successors raises
SearchWillRaise ==
    /\ StopIterationIn(path[Len(path)])
    /\ ~Cutoff(arg + h_manhattan(path[Len(path)]), arg)
    /\ path[Len(path)] # goal

\* search, from its entry to its first return or to the head of its loop
SearchEnter ==
    /\ algo = "ida" /\ pc = "call"
    /\ ~SearchWillRaise
    /\ LET current == path[Len(path)]
           g == arg
           f == g + h_manhattan(current)
       IN IF Cutoff(f, g)
          THEN /\ ret' = [t |-> f, found |-> FALSE, count |-> nodes_opened]
               /\ pc' = "ret"
               /\ frames' = frames
               /\ hist' = [hist EXCEPT !.calls = @ + 1,
                                       !.cut_min = IF f < @ THEN f ELSE @]
          ELSE IF current = goal
          THEN /\ ret' = [t |-> g, found |-> TRUE, count |-> nodes_opened]
               /\ pc' = "ret"
               /\ frames' = frames
               /\ hist' = [hist EXCEPT !.calls = @ + 1]
          ELSE /\ frames' = Append(frames,
                                   [current |-> current, g |-> g,
                                    succs |-> generate_successors(current),
                                    i |-> 1, min_bound |-> Inf,
                                    entry |-> path])
               /\ pc' = "loop"
               /\ ret' = ret
               /\ hist' = [hist EXCEPT !.calls = @ + 1]
    /\ UNCHANGED <<algo, variant, max_depth, start_state, path, bound, depth,
                   visited, arg, nodes_opened, result>>

\* the for loop of search meets a successor that is already in path
SearchSkip ==
    /\ algo = "ida" /\ pc = "loop"
    /\ LET fr == Top(frames)
       IN /\ fr.i <= Len(fr.succs)
          /\ InList(fr.succs[fr.i], path)
          /\ frames' = [frames EXCEPT ![Len(frames)].i = fr.i + 1]
    /\ UNCHANGED <<hist, algo, variant, max_depth, start_state, pc, path, bound,
                   depth, visited, arg, nodes_opened, ret, result>>

\* the for loop of search appends a successor and calls search on it
SearchDescend ==
    /\ algo = "ida" /\ pc = "loop"
    /\ LET fr == Top(frames)
       IN /\ fr.i <= Len(fr.succs)
          /\ ~InList(fr.succs[fr.i], path)
          /\ path' = Append(path, fr.succs[fr.i])
          /\ arg' = fr.g + 1
          /\ pc' = "call"
    /\ UNCHANGED <<hist, algo, variant, max_depth, start_state, frames, bound,
                   depth, visited, nodes_opened, ret, result>>

\* the for loop of search is exhausted: return min_bound, False
SearchExhausted ==
    /\ algo = "ida" /\ pc = "loop"
    /\ LET fr == Top(frames)
       IN /\ fr.i > Len(fr.succs)
          /\ ret' = [t |-> fr.min_bound, found |-> FALSE, count |-> nodes_opened]
          /\ frames' = Pop(frames)
          /\ pc' = "ret"
    /\ UNCHANGED <<hist, algo, variant, max_depth, start_state, path, bound, depth,
                   visited, arg, nodes_opened, result>>

\* a recursive call came back with found: return t, True, nodes_opened_count
SearchFound ==
    /\ algo = "ida" /\ pc = "ret" /\ frames # <<>>
    /\ ret.found
    /\ frames' = Pop(frames)
    /\ UNCHANGED <<hist, algo, variant, max_depth, start_state, pc, path, bound,
                   depth, visited, arg, nodes_opened, ret, result>>

\* keeping the greater of the two for the lesser
Min_KeepsGreater(a, b) == IF a > b THEN a ELSE b

Min(a, b) == IF a < b THEN a ELSE b

\* coming back from a recursive call without  path.pop()
SearchBacktrack_NoPop ==
    /\ algo = "ida" /\ pc = "ret" /\ frames # <<>>
    /\ ~ret.found
    /\ frames' = [frames EXCEPT ![Len(frames)].min_bound = Min(ret.t, @),
                                ![Len(frames)].i = @ + 1]
    /\ nodes_opened' = nodes_opened + 1
    /\ pc' = "loop"
    /\ UNCHANGED <<hist, algo, variant, max_depth, start_state, path, bound,
                   depth, visited, arg, ret, result>>

\* a recursive call came back without the goal: keep the least t, pop, count
SearchBacktrack ==
    /\ algo = "ida" /\ pc = "ret" /\ frames # <<>>
    /\ ~ret.found
    /\ frames' = [frames EXCEPT ![Len(frames)].min_bound = Min(ret.t, @),
                                ![Len(frames)].i = @ + 1]
    /\ path' = Pop(path)
    /\ nodes_opened' = nodes_opened + 1
    /\ pc' = "loop"
    /\ UNCHANGED <<hist, algo, variant, max_depth, start_state, bound, depth,
                   visited, arg, ret, result>>

\* the outer loop of ida_star: the top-level search returned found
IdaFound ==
    /\ algo = "ida" /\ pc = "ret" /\ frames = <<>>
    /\ ret.found
    /\ result' = [path |-> Some(path), nodes_opened |-> ret.count]
    /\ pc' = "done"
    /\ UNCHANGED <<hist, algo, variant, max_depth, start_state, path, frames, bound,
                   depth, visited, arg, nodes_opened, ret>>

\* the test on which the outer loop gives up
GiveUp(t) == IF variant = 1 THEN t = bound ELSE bound >= max_depth

\* the outer loop giving up with  return path  for  return None
IdaGiveUp_ReturnsPath ==
    /\ algo = "ida" /\ pc = "ret" /\ frames = <<>>
    /\ ~ret.found
    /\ (IF variant = 1 THEN ret.t = bound ELSE bound >= max_depth)
    /\ result' = [path |-> Some(path), nodes_opened |-> ret.count]
    /\ pc' = "done"
    /\ UNCHANGED <<hist, algo, variant, max_depth, start_state, path, frames, bound,
                   depth, visited, arg, nodes_opened, ret>>

\* the outer loop of ida_star returns None
IdaGiveUp ==
    /\ algo = "ida" /\ pc = "ret" /\ frames = <<>>
    /\ ~ret.found
    /\ GiveUp(ret.t)
    /\ result' = [path |-> None, nodes_opened |-> ret.count]
    /\ pc' = "done"
    /\ UNCHANGED <<hist, algo, variant, max_depth, start_state, path, frames, bound,
                   depth, visited, arg, nodes_opened, ret>>

\* the outer loop of ida_star goes round with bound = t
IdaNextBound ==
    /\ algo = "ida" /\ pc = "ret" /\ frames = <<>>
    /\ ~ret.found
    /\ ~GiveUp(ret.t)
    /\ bound' = ret.t
    /\ arg' = 0
    /\ pc' = "call"
    /\ hist' = [hist EXCEPT !.iter = @ + 1, !.cut_min = Inf]
    /\ UNCHANGED <<algo, variant, max_depth, start_state, path, frames, depth,
                   visited, nodes_opened, ret, result>>

\* ida_star: h_manhattan(self.initial) raises KeyError
IdaStartRaises ==
    /\ algo = "ida" /\ pc = "start"
    /\ KeyErrorIn(initial)
    /\ result' = [exception |-> "KeyError"]
    /\ pc' = "raised"
    /\ UNCHANGED <<hist, algo, variant, max_depth, start_state, path, frames, bound,
                   depth, visited, arg, nodes_opened, ret>>

\* search: generate_successors(current) raises StopIteration, which leaves
\* every open invocation of search and ida_star
SearchRaises ==
    /\ algo = "ida" /\ pc = "call"
    /\ SearchWillRaise
    /\ result' = [exception |-> "StopIteration"]
    /\ frames' = <<>>
    /\ pc' = "raised"
    /\ UNCHANGED <<hist, algo, variant, max_depth, start_state, path, bound, depth,
                   visited, arg, nodes_opened, ret>>

IdaSteps ==
    \/ IdaStart
    \/ SearchEnter
    \/ SearchSkip
    \/ SearchDescend
    \/ SearchExhausted
    \/ SearchFound
    \/ SearchBacktrack
    \/ IdaFound
    \/ IdaGiveUp
    \/ IdaNextBound

(***************************************************************************)
(* IDDFS: PuzzleSolver.iddfs, dls, get_children and Node.                  *)
(***************************************************************************)
\* Node.__init__
Node(state, parent, action, d) ==
    [state |-> state, parent |-> parent, action |-> action, depth |-> d]

\* solve_puzzle: root = Node(start_state)
root == Node(start_state, None, None, 0)

\* (nx, ny, tuple(map(tuple, swapped_matrix))): always a tuple of tuples
ChildState(nx, ny, swapped_matrix) ==
    [kind |-> "tuple", x |-> nx, y |-> ny, m |-> swapped_matrix]

\* get_children: directions, Up, Down, Left, Right
directions == << <<-1, 0>>, <<1, 0>>, <<0, -1>>, <<0, 1>> >>

\* PuzzleSolver.get_children
get_children(nd) ==
    LET x == nd.state.x
        y == nd.state.y
        matrix == nd.state.m
        n == Len(matrix)
    IN MapFilter(directions,
                 [d \in Range(directions) |->
                    /\ 0 <= x + d[1] /\ x + d[1] < n
                    /\ 0 <= y + d[2] /\ y + d[2] < n],
                 [d \in Range(directions) |->
                    Node(ChildState(x + d[1], y + d[2],
                                    SwapCells(matrix, x, y, x + d[1], y + d[2])),
                         Some(nd), Some(d), nd.depth + 1)])

\* dls: the key added to visited,
\* (node.state[0], node.state[1], tuple(map(tuple, node.state[2])))
VisitedKey(state) == [kind |-> "tuple", x |-> state.x, y |-> state.y, m |-> state.m]

\* dls: node.state == goal; a list never equals a tuple
IsGoal(state) == state = goal_state

\* the depth test letting one more level through
DepthCut_Late(nd) == nd.depth > depth + 1

\* dls: the depth test on entry
DepthCut(nd) == nd.depth > depth

\* iddfs: the first round of the for loop calls dls(root, goal, 0, set(), 0)
IddfsStart ==
    /\ algo = "iddfs" /\ pc = "start"
    /\ depth' = 0
    /\ visited' = {}
    /\ nodes_opened' = 0
    /\ arg' = root
    /\ pc' = "call"
    /\ UNCHANGED <<hist, algo, variant, max_depth, start_state, path, frames, bound,
                   ret, result>>

\* dls, from its entry to its first return or to the head of its loop
DlsEnter ==
    /\ algo = "iddfs" /\ pc = "call"
    /\ IF DepthCut(arg)
       THEN /\ ret' = None
            /\ pc' = "ret"
            /\ UNCHANGED <<nodes_opened, visited, frames>>
       ELSE /\ nodes_opened' = nodes_opened + 1
            /\ visited' = visited \cup {VisitedKey(arg.state)}
            /\ IF IsGoal(arg.state)
               THEN /\ ret' = Some(arg)
                    /\ pc' = "ret"
                    /\ frames' = frames
               ELSE /\ frames' = Append(frames,
                                        [node |-> arg,
                                         children |-> get_children(arg),
                                         i |-> 1])
                    /\ pc' = "loop"
                    /\ ret' = ret
    /\ UNCHANGED <<hist, algo, variant, max_depth, start_state, path, bound, depth,
                   arg, result>>

\* the for loop of dls meets a child whose state is in visited
DlsSkip ==
    /\ algo = "iddfs" /\ pc = "loop"
    /\ LET fr == Top(frames)
       IN /\ fr.i <= Len(fr.children)
          /\ fr.children[fr.i].state \in visited
          /\ frames' = [frames EXCEPT ![Len(frames)].i = fr.i + 1]
    /\ UNCHANGED <<hist, algo, variant, max_depth, start_state, pc, path, bound,
                   depth, visited, arg, nodes_opened, ret, result>>

\* the for loop of dls calls dls on a child
DlsDescend ==
    /\ algo = "iddfs" /\ pc = "loop"
    /\ LET fr == Top(frames)
       IN /\ fr.i <= Len(fr.children)
          /\ fr.children[fr.i].state \notin visited
          /\ arg' = fr.children[fr.i]
          /\ pc' = "call"
    /\ UNCHANGED <<hist, algo, variant, max_depth, start_state, path, frames, bound,
                   depth, visited, nodes_opened, ret, result>>

\* the for loop of dls is exhausted: return None, nodes_opened
DlsExhausted ==
    /\ algo = "iddfs" /\ pc = "loop"
    /\ LET fr == Top(frames)
       IN /\ fr.i > Len(fr.children)
          /\ ret' = None
          /\ frames' = Pop(frames)
          /\ pc' = "ret"
    /\ UNCHANGED <<hist, algo, variant, max_depth, start_state, path, bound, depth,
                   visited, arg, nodes_opened, result>>

\* a recursive dls came back with a node: return it
DlsFound ==
    /\ algo = "iddfs" /\ pc = "ret" /\ frames # <<>>
    /\ ret # None
    /\ frames' = Pop(frames)
    /\ UNCHANGED <<hist, algo, variant, max_depth, start_state, pc, path, bound,
                   depth, visited, arg, nodes_opened, ret, result>>

\* a recursive dls came back with None: go on with the next child
DlsBacktrack ==
    /\ algo = "iddfs" /\ pc = "ret" /\ frames # <<>>
    /\ ret = None
    /\ frames' = [frames EXCEPT ![Len(frames)].i = @ + 1]
    /\ pc' = "loop"
    /\ UNCHANGED <<hist, algo, variant, max_depth, start_state, path, bound, depth,
                   visited, arg, nodes_opened, ret, result>>

\* iddfs: result is not None: return result, nodes_opened
IddfsFound ==
    /\ algo = "iddfs" /\ pc = "ret" /\ frames = <<>>
    /\ ret # None
    /\ result' = [node |-> ret, nodes_opened |-> nodes_opened]
    /\ pc' = "done"
    /\ UNCHANGED <<hist, algo, variant, max_depth, start_state, path, frames, bound,
                   depth, visited, arg, nodes_opened, ret>>

\* the next round without  visited = set()
IddfsNextDepth_KeepsVisited ==
    /\ algo = "iddfs" /\ pc = "ret" /\ frames = <<>>
    /\ ret = None
    /\ depth + 1 < max_depth + 1
    /\ depth' = depth + 1
    /\ nodes_opened' = 0
    /\ arg' = root
    /\ pc' = "call"
    /\ UNCHANGED <<hist, algo, variant, max_depth, start_state, path, frames, bound,
                   visited, ret, result>>

\* iddfs: the next round of  for depth in range(max_depth + 1)
IddfsNextDepth ==
    /\ algo = "iddfs" /\ pc = "ret" /\ frames = <<>>
    /\ ret = None
    /\ depth + 1 < max_depth + 1
    /\ depth' = depth + 1
    /\ visited' = {}
    /\ nodes_opened' = 0
    /\ arg' = root
    /\ pc' = "call"
    /\ UNCHANGED <<hist, algo, variant, max_depth, start_state, path, frames, bound,
                   ret, result>>

\* iddfs: the for loop is over: return None, nodes_opened
IddfsGiveUp ==
    /\ algo = "iddfs" /\ pc = "ret" /\ frames = <<>>
    /\ ret = None
    /\ ~(depth + 1 < max_depth + 1)
    /\ result' = [node |-> None, nodes_opened |-> nodes_opened]
    /\ pc' = "done"
    /\ UNCHANGED <<hist, algo, variant, max_depth, start_state, path, frames, bound,
                   depth, visited, arg, nodes_opened, ret>>

IddfsSteps ==
    \/ IddfsStart
    \/ DlsEnter
    \/ DlsSkip
    \/ DlsDescend
    \/ DlsExhausted
    \/ DlsFound
    \/ DlsBacktrack
    \/ IddfsFound
    \/ IddfsNextDepth
    \/ IddfsGiveUp

Next == Construct \/ IdaSteps \/ IddfsSteps

\* the exceptions only a malformed grid can raise
RaiseNext == IdaStartRaises \/ SearchRaises

Spec == Init /\ [][Next]_vars

\* ida_star alone; its steps run one after another until it returns
IdaInit == Init /\ algo = "ida"

IdaNext == Construct \/ IdaSteps

IdaFairSpec == IdaInit /\ [][IdaNext]_vars /\ WF_vars(IdaNext)

(***************************************************************************)
(* The solvers on grids that are not permutations of 0..8 on a 3 x 3 grid. *)
(***************************************************************************)
\* a grid is well formed when it has the goal's shape and holds each of the
\* goal's values, the blank among them, exactly once
WellFormed(m) ==
    /\ Len(m) = Len(goal)
    /\ \A r \in 1 .. Len(m) : Len(m[r]) = Len(goal)
    /\ \A val \in DOMAIN goal_positions :
          Cardinality({rc \in Cells(m) : At(m, rc[1], rc[2]) = val}) = 1

MalformedGrids ==
    { << <<1, 1, 3>>, <<8, 0, 4>>, <<7, 6, 5>> >>,   \* 1 twice, 2 missing
      << <<1, 2, 3>>, <<8, 0, 4>>, <<7, 0, 5>> >>,   \* two blanks, 6 missing
      << <<1, 2, 3>>, <<8, 1, 4>>, <<7, 6, 5>> >>,   \* no blank, 1 twice
      << <<1, 2, 3>>, <<8, 0, 4>>, <<7, 6, 9>> >>,   \* 9 in place of 5
      << <<1, 2>>, <<3, 0>> >> }                     \* 2 x 2

\* the start-state builders find the blank with next(...), so they hand on
\* no grid without a blank; ida_star reads only the grid
MalformedInit ==
    /\ algo \in {"ida", "iddfs"}
    /\ variant \in (IF algo = "ida" THEN {1, 2} ELSE {0})
    /\ max_depth \in 0 .. MaxMaxDepth
    /\ \E grid \in MalformedGrids \cup GoalLevels[1] \cup GoalLevels[2] :
          IF ZeroCells(grid) # {}
          THEN \E kind \in (IF algo = "ida" THEN {"list"} ELSE {"list", "tuple"}) :
                  start_state = StartState(kind, grid)
          ELSE /\ algo = "ida"
               /\ start_state = [kind |-> "list", x |-> 0, y |-> 0, m |-> grid]
    /\ Fresh

MalformedSpec == MalformedInit /\ [][Next \/ RaiseNext]_vars

(***************************************************************************)
(* iddfs on the starts DeepDist slides from the goal, with max_depth their *)
(* distance: the depth limits at which a state can be met again at a       *)
(* smaller depth after visited has recorded it at a greater one.           *)
(***************************************************************************)
IddfsDeepInit ==
    /\ algo = "iddfs"
    /\ variant = 0
    /\ max_depth = DeepDist
    /\ \E grid \in GoalLevels[DeepDist + 1] :
          start_state = StartState("list", grid)
    /\ Fresh

IddfsNext == Construct \/ IddfsSteps

IddfsDeepSpec == IddfsDeepInit /\ [][IddfsNext]_vars

(***************************************************************************)
(* The pure functions, applied to every grid within Radius of the goal or  *)
(* of the wrong-parity base.                                               *)
(***************************************************************************)
ProbeInit ==
    /\ algo = "probe"
    /\ variant = 0
    /\ max_depth = 0
    /\ \E grid \in GoalBall \cup WrongBall :
          start_state = StartState("tuple", grid)
    /\ Fresh

\* evaluate h_manhattan, generate_successors and get_children on the grid
Probe ==
    /\ algo = "probe" /\ pc = "start"
    /\ result' = [h |-> h_manhattan(initial),
                  successors |-> generate_successors(initial),
                  children |-> get_children(root)]
    /\ pc' = "done"
    /\ UNCHANGED <<hist, algo, variant, max_depth, start_state, path, frames, bound,
                   depth, visited, arg, nodes_opened, ret>>

ProbeNext == Construct \/ Probe

ProbeSpec == ProbeInit /\ [][ProbeNext]_vars

(***************************************************************************)
(* What solve_puzzle reads off the solver's return value.                  *)
(***************************************************************************)
Returned == pc = "done"

\* solve_puzzle: solution / found_solution
Solved == IF algo = "ida" THEN result.path # None ELSE result.node # None

\* solve_puzzle: moves, when a solution was returned
Moves ==
    IF algo = "ida" THEN Len(The(result.path)) - 1 ELSE The(result.node).depth

(***************************************************************************)
(* Claims.                                                                 *)
(***************************************************************************)

\* C1: when the goal is d <= max_depth slides from the start, ida_star (both
\* variants) returns a path, and len(path) - 1 = d, the true distance.
C1_IdaOptimal ==
    (algo = "ida" /\ Returned /\ Dist(initial) <= max_depth)
        => (result.path # None /\ Len(The(result.path)) - 1 = Dist(initial))

\* a start the heuristic underestimates: the bound was raised on the way
C1_Witness ==
    /\ algo = "ida" /\ Returned /\ variant = 1
    /\ h_manhattan(initial) < Dist(initial) /\ bound > h_manhattan(initial)
    /\ Dist(initial) = max_depth
    /\ result.path # None /\ Len(The(result.path)) - 1 = Dist(initial)

\* C2: when the goal is more than max_depth slides away (or unreachable),
\* every solver returns None with a nodes-opened count above 0; and no
\* solver returns a solution of more than max_depth moves.
C2_NotFoundBeyondMaxDepth ==
    Returned =>
        /\ Dist(initial) > max_depth => (~Solved /\ result.nodes_opened > 0)
        /\ Solved => Moves <= max_depth

C2_Witness ==
    /\ Returned /\ algo = "iddfs"
    /\ max_depth = 2 /\ Dist(initial) = 5
    /\ ~Solved /\ result.nodes_opened > 0

\* C3: for every start permutation, ida_star eventually returns, and for a
\* start the goal is unreachable from it returns None.
C3_IdaTerminates ==
    <>(Returned /\ (~Reachable(initial) => result.path = None))

C3_Witness ==
    /\ algo = "ida" /\ Returned /\ ~Reachable(initial)
    /\ max_depth = MaxMaxDepth /\ result.path = None

\* C4: a malformed grid is rejected when the puzzle is constructed: no step
\* of a solver runs on it.
C4_MalformedRejected ==
    ~WellFormed(start_state.m) => pc \in {"new", "rejected"}

NoDuplicates(list) ==
    \A i, j \in 1 .. Len(list) : list[i] = list[j] => i = j

\* C5: while ida_star runs, path starts with the initial state, each state
\* is one legal slide from the one before it, and no state is in it twice;
\* a returned solution is this path, ending at the goal.
C5_PathSimple ==
    (algo = "ida" /\ pc \notin {"new", "start"}) =>
        /\ Len(path) >= 1 /\ path[1] = initial
        /\ \A i \in 1 .. Len(path) - 1 : path[i + 1] \in Slides(path[i])
        /\ NoDuplicates(path)
        /\ (Returned /\ result.path # None) =>
              (The(result.path) = path /\ path[Len(path)] = goal)

\* the cycle guard acts: the successor the loop is at is already in path
C5_Witness ==
    /\ algo = "ida" /\ pc = "loop" /\ Len(path) >= 4
    /\ LET fr == Top(frames)
       IN fr.i <= Len(fr.succs) /\ InList(fr.succs[fr.i], path)

\* what C6 says of a state s and the list succs of its successors
SuccessorsRight(s, succs) ==
    /\ Len(succs) >= 1 /\ Len(succs) <= 4
    /\ \A i \in 1 .. Len(succs) : succs[i] \in Slides(s)

\* C6: the successors of a state are between 1 and 4 states, each the state
\* with the blank exchanged with one orthogonally adjacent tile, and the
\* state is among the successors of each of them; get_children likewise,
\* each child recording where its blank is.
C6_Successors ==
    (algo = "probe" /\ Returned) =>
        /\ SuccessorsRight(initial, result.successors)
        /\ \A t \in Range(result.successors) :
              initial \in Range(generate_successors(t))
        /\ SuccessorsRight(initial, [i \in 1 .. Len(result.children) |->
                                       result.children[i].state.m])
        /\ \A child \in Range(result.children) :
              /\ At(child.state.m, child.state.x, child.state.y) = 0
              /\ \E back \in Range(get_children(child)) :
                    back.state = start_state

\* a grid with the blank in a corner, far from the goal
C6_Witness ==
    /\ algo = "probe" /\ Returned
    /\ Len(result.successors) = 2 /\ Len(result.children) = 2
    /\ Dist(initial) > MaxStartDist

\* C7: h_manhattan(goal) = 0, h_manhattan is never negative, and for a state
\* the goal is reachable from it is at most the true distance to the goal.
C7_Admissible ==
    (algo = "probe" /\ Returned) =>
        /\ initial = goal => result.h = 0
        /\ result.h >= 0
        /\ Reachable(initial) => result.h <= Dist(initial)

\* a state on which the heuristic is strictly below the true distance
C7_Witness ==
    /\ algo = "probe" /\ Returned /\ Reachable(initial)
    /\ result.h > 0 /\ result.h < Dist(initial)

\* C8: started on the goal configuration, every solver returns a solution
\* of 0 moves with a nodes-opened count of at most 1.
C8_GoalStart ==
    (Returned /\ start_state.m = goal
              /\ start_state.x = goal_state.x /\ start_state.y = goal_state.y)
        => (Solved /\ Moves = 0 /\ result.nodes_opened <= 1)

RECURSIVE ChainFromRoot(_)
\* the parent links of nd lead to root by legal slides, depth by depth
ChainFromRoot(nd) ==
    IF nd.parent = None THEN nd = root
    ELSE /\ nd.state.m \in Slides(The(nd.parent).state.m)
         /\ nd.depth = The(nd.parent).depth + 1
         /\ ChainFromRoot(The(nd.parent))

\* C9: iddfs tries the limits 0, 1, ..., max_depth in this order, each from
\* an empty visited set, and returns at the first limit at which dls returns
\* a node; that node is at the goal, its depth is at most the limit, and its
\* parent links are legal slides from the root; otherwise it returns None
\* after the limit max_depth.
C9_Iddfs ==
    /\ [](algo = "iddfs" =>
            /\ pc = "start" => depth = 0
            /\ depth <= max_depth
            /\ (pc = "call" /\ arg.depth = 0) =>
                   (arg = root /\ visited = {} /\ nodes_opened = 0)
            /\ Returned =>
                   IF result.node # None
                   THEN /\ The(result.node).state.m = goal
                        /\ The(result.node).depth <= depth
                        /\ ChainFromRoot(The(result.node))
                   ELSE depth = max_depth)
    /\ [][algo = "iddfs" =>
            /\ depth' # depth =>
                  (depth' = depth + 1 /\ ret = None /\ frames = <<>>
                   /\ pc' = "call" /\ arg' = root)
            /\ (pc = "ret" /\ frames = <<>> /\ ret # None) =>
                  (Returned' /\ result'.node = ret)]_vars

C9_Witness ==
    /\ algo = "iddfs" /\ Returned /\ result.node # None
    /\ The(result.node).depth = MaxMaxDepth /\ depth = MaxMaxDepth
    /\ start_state.kind = "list"

\* C10 as stated: search is never invoked with g > max_depth, path never
\* holds more than max_depth + 1 states, and dls is never invoked on a node
\* of depth above max_depth.
C10_AsStated ==
    /\ (algo = "ida" /\ pc = "call") => arg <= max_depth
    /\ algo = "ida" => Len(path) <= max_depth + 1
    /\ (algo = "iddfs" /\ pc = "call") => arg.depth <= max_depth

\* C10, amended: search is never invoked with g > max_depth + 1 and never
\* passes its cutoff test with g > max_depth, so path never holds more than
\* max_depth + 2 states and at most max_depth + 1 invocations of search are
\* open; dls is never invoked on a node of depth above its limit + 1, which
\* is at most max_depth + 1, and never opens a node deeper than its limit.
C10_DepthBounded ==
    /\ algo = "ida" =>
          /\ pc = "call" => (arg <= max_depth + 1 /\ arg = Len(path) - 1)
          /\ Len(path) <= max_depth + 2
          /\ Len(frames) <= max_depth + 1
          /\ \A k \in 1 .. Len(frames) : frames[k].g = k - 1
    /\ algo = "iddfs" =>
          /\ pc = "call" => (arg.depth <= depth + 1 /\ arg.depth <= max_depth + 1)
          /\ Len(frames) <= depth + 1
          /\ \A k \in 1 .. Len(frames) : frames[k].node.depth = k - 1

C10_Witness ==
    \/ /\ algo = "ida" /\ pc = "call" /\ max_depth = MaxMaxDepth
       /\ arg = max_depth + 1 /\ Len(path) = max_depth + 2
    \/ /\ algo = "iddfs" /\ pc = "call" /\ max_depth = MaxMaxDepth
       /\ arg.depth = max_depth + 1

(***************************************************************************)
(* C11: in ida_star the first outer iteration runs with the bound          *)
(* h_manhattan(initial); every later outer iteration runs with a bound     *)
(* strictly greater than the bound of the iteration before it, and that    *)
(* bound is the least f = g + h among the nodes the iteration before cut   *)
(* off.                                                                    *)
(***************************************************************************)
C11_BoundIncreases ==
    /\ [](algo = "ida" /\ hist.iter = 1 => bound = h_manhattan(initial))
    /\ [][(algo = "ida" /\ hist.iter >= 1 /\ hist'.iter = hist.iter + 1)
            => /\ bound' > bound
               /\ bound' = hist.cut_min]_vars

\* a third outer iteration is running, in either program
C11_Witness ==
    /\ algo = "ida" /\ pc = "loop"
    /\ hist.iter >= 3
    /\ bound > h_manhattan(initial) + 2

(***************************************************************************)
(* C12: when ida_star returns, the nodes-opened count it returns equals    *)
(* the number of invocations of search made over all outer iterations,     *)
(* the root invocations included.                                          *)
(***************************************************************************)
C12_CountsInvocations ==
    (algo = "ida" /\ Returned) => result.nodes_opened = hist.calls

(***************************************************************************)
(* C13: the path of ida_star is kept as a stack.  An invocation of search  *)
(* that returns not-found leaves path as it was at its entry, each pushed  *)
(* successor being popped before the next sibling is tried, so every       *)
(* outer iteration starts with path = [initial]; an invocation that        *)
(* returns found leaves path ending in the goal, with len(path) - 1 the g  *)
(* it returns.                                                             *)
(***************************************************************************)
C13_StackDiscipline ==
    /\ [](algo = "ida" =>
            \* at the head of the loop, before the first and between siblings
            /\ pc = "loop" => path = Top(frames).entry
            \* the root invocation of an outer iteration is entered
            /\ (pc = "call" /\ frames = <<>>) => path = <<initial>>
            \* an invocation has returned found
            /\ (pc = "ret" /\ ret.found) =>
                  /\ path[Len(path)] = goal
                  /\ Len(path) - 1 = ret.t)
    \* an invocation returns not-found: at once, or when its loop is over
    /\ [][(algo = "ida" /\ pc # "ret" /\ pc' = "ret" /\ ~ret'.found)
            => path' = IF pc = "call" THEN path ELSE Top(frames).entry]_vars

\* the goal is found two or more slides down, in a second or later outer
\* iteration, after invocations that returned not-found
C13_Witness ==
    /\ algo = "ida" /\ pc = "ret"
    /\ ret.found /\ ret.t >= 2
    /\ nodes_opened > 0
    /\ hist.iter >= 2

(***************************************************************************)
(* C14: for a start whose shortest distance d to the goal is at most       *)
(* max_depth, iddfs returns a goal node, and that node's depth is d.       *)
(***************************************************************************)
C14_IddfsOptimal ==
    (algo = "iddfs" /\ Returned /\ Reachable(initial)
       /\ Dist(initial) <= max_depth)
    => (Solved /\ IsGoal(The(result.node).state) /\ Moves = Dist(initial))

====
